---- MODULE Spec2Model ----
(***************************************************************************)
(* Model of backend/services/palisades_service.py: the in-memory job       *)
(* table, the worker threads that run the ten-stage pipeline (default and  *)
(* zone variant), the file cache under CACHE_DIR, and the request handlers *)
(* of PalisadesService that FastAPI runs on its thread pool.               *)
(*                                                                         *)
(* Modelling decisions:                                                    *)
(*  - A job id is a pair <<namespace, n>>: "run" for str(uuid4())[:8],     *)
(*    "cached" for "cached_" + str(uuid4())[:6].  uuid4 is taken to return *)
(*    a token not issued before (NewRunId, NewCachedId) in the service     *)
(*    specifications; SpecIds takes the draw as the random value it is.    *)
(*  - A cache file is a named cell: absent, partial (opened for writing,   *)
(*    content not yet complete) or complete.  The content of a complete    *)
(*    FeatureCollection is abstracted to the job that produced it and its  *)
(*    number of features.                                                  *)
(*    A file that is neither absent nor complete does not parse.  Files    *)
(*    behave as on POSIX: unlinking a file that a worker holds open takes  *)
(*    the name away and the worker writes on into the nameless file.       *)
(*  - p.exists() and p.unlink() in clear_cache are separate steps, so that *)
(*    calls in flight together can come between them.                      *)
(*  - A stage's external work either returns or raises; raising and the    *)
(*    except-block of _run/_run_zone are one step of the worker.           *)
(*  - resp holds the value a handler has just returned (or the exception   *)
(*    it raised) until Deliver hands it to the client.                     *)
(*  - The service specifications abstract the geometry and the numbers of  *)
(*    stages 7-9 to a count of basins.  The computations of those stages   *)
(*    (the area filter and its fallback, the Staley and Gartner formulas,  *)
(*    the hazard table and the rounding of the record) are operators,      *)
(*    applied in specifications of their own (SpecDelineate, SpecModel,    *)
(*    SpecHazard) to inputs drawn from bounded grids; calc holds the       *)
(*    inputs and the results.                                              *)
(*  - Real numbers are fixed point: areas, ratios, radians and volumes in  *)
(*    units of 1/10000, probabilities in units of 1/100000.  sin, sqrt,    *)
(*    exp and log10 are evaluated by series on that grid, every            *)
(*    intermediate below 2^31; the results agree with the floating-point   *)
(*    formulas to 5 parts in 1000 (volume) and 0.00005 (probability).      *)
(***************************************************************************)
EXTENDS Integers, Sequences, FiniteSets, TLC

\* ------------------------------------------------------------------ bounds
MaxRuns == 2      \* launched runs (worker threads) in one behaviour
MaxCached == 1    \* synthesized "cached_" jobs in one behaviour
MaxBasins == 2    \* basins a run may delineate (features of a collection)
NumHandlers == 2  \* request handlers (threads of the pool)
MaxCalls == 1     \* calls in flight together under Spec and SpecWrites
MaxRunsCalls == 1 \* launched runs in one behaviour of SpecCalls

\* ------------------------------------------------------------- job ids
RunIds == {<<"run", i>> : i \in 1..MaxRuns}
CachedIds == {<<"cached", i>> : i \in 1..MaxCached}
UnknownId == <<"unknown", 0>>     \* a token no start call ever returned
PriorId == <<"prior", 0>>         \* a run of an earlier server process
NoId == <<"none", 0>>
AllIds == RunIds \cup CachedIds \cup {UnknownId}
Handlers == 1..NumHandlers

\* Optional values (None / a present value)
None == <<>>
Some(x) == <<x>>

VARIABLES
    jobs,        \* _jobs: job id -> entry (a function on the ids inserted)
    basins,      \* CACHE_DIR/basins.geojson
    perimeter,   \* CACHE_DIR/perimeter.geojson
    zones,       \* CACHE_DIR/zone_<job_id>.geojson, per run id
    thr,         \* worker threads: position in _run / _run_zone, locals
    workdirs,    \* run ids whose tempfile.mkdtemp directory exists
    wrote,       \* history: the writes each run has made to the cache
    hpc,         \* request handlers in flight: position in the call, locals
    resp,        \* the response being returned by a handler, or NoResp
    calc         \* the stage computation under study (stages 7 and 9), or NoCalc

vars == <<jobs, basins, perimeter, zones, thr, workdirs, wrote, hpc, resp,
          calc>>
service == <<jobs, basins, perimeter, zones, thr, workdirs, wrote, hpc, resp>>

\* ------------------------------------------------------------- cache files
Absent == [state |-> "absent", job |-> NoId, n |-> 0]
Partial(j) == [state |-> "partial", job |-> j, n |-> 0]
Complete(j, n) == [state |-> "complete", job |-> j, n |-> n]
\* Path.exists()
exists(f) == f.state # "absent"

\* ------------------------------------------------------------- job entries
\* start_analysis: the entry of a launched default run
NewRunEntry ==
    [status |-> "running", step |-> 0, message |-> "Starting analysis...",
     progress |-> 0, error |-> None, traceback |-> None,
     basin_count |-> None, zone |-> FALSE]

\* start_zone_analysis: the entry of a launched zone run
NewZoneEntry ==
    [status |-> "running", step |-> 0, message |-> "Starting zone analysis...",
     progress |-> 0, error |-> None, traceback |-> None,
     basin_count |-> None, zone |-> TRUE]

\* Mutant: a synthetic entry that is left at the start of a run
CachedEntryUnfinished(count) ==
    [status |-> "completed", step |-> 0,
     message |-> "Analysis complete! (Cached results loaded)",
     progress |-> 0, error |-> None, traceback |-> None,
     basin_count |-> Some(count), zone |-> FALSE]

\* start_analysis: the synthetic entry of the cache short-circuit
CachedEntry(count) ==
    [status |-> "completed", step |-> 10,
     message |-> "Analysis complete! (Cached results loaded)",
     progress |-> 100, error |-> None, traceback |-> None,
     basin_count |-> Some(count), zone |-> FALSE]

\* Mutant: the values of stages 7 and 8 exchanged
StageProgressSwapped == <<5, 15, 28, 40, 52, 62, 82, 73, 91, 95>>

\* The progress value each stage passes to _update (stages 1..10)
StageProgress == <<5, 15, 28, 40, 52, 62, 73, 82, 91, 95>>

\* The message each stage passes to _update
StageMessage(k, zone) ==
    CASE k = 1 -> "Loading fire perimeter, DEM, and dNBR rasters..."
      [] k = 2 -> IF zone THEN "Reprojecting zone polygon to UTM Zone 11N..."
                          ELSE "Reprojecting to UTM Zone 11N..."
      [] k = 3 -> "Filling topographic depressions in DEM..."
      [] k = 4 -> "Computing D8 flow direction across terrain..."
      [] k = 5 -> "Computing flow accumulation..."
      [] k = 6 -> "Extracting stream network..."
      [] k = 7 -> "Delineating sub-basins from stream network..."
      [] k = 8 -> "Computing slope and burn severity for each sub-basin..."
      [] k = 9 -> "Running Staley (2017) debris-flow probability model..."
      [] k = 10 -> IF zone THEN "Exporting zone analysis results..."
                           ELSE "Exporting GeoJSON results and fire perimeter..."

\* _update: dict.update of step, message and progress
update(entry, step, message, progress) ==
    [entry EXCEPT !.step = step, !.message = message, !.progress = progress]

\* The _update call that opens stage k
StageUpdate(entry, k) ==
    update(entry, k, StageMessage(k, entry.zone), StageProgress[k])

\* _run / _run_zone: the dict.update after the export
CompletedUpdate(entry, n) ==
    [entry EXCEPT !.status = "completed", !.step = 10,
                  !.message = IF entry.zone THEN "Zone analysis complete!"
                                            ELSE "Analysis complete!",
                  !.progress = 100, !.basin_count = Some(n)]

\* Mutant: an except block that also resets the position of the job
ErrorUpdateReset(entry, msg) ==
    [entry EXCEPT !.status = "error", !.error = Some(msg),
                  !.traceback = Some("Traceback (most recent call last): " \o msg),
                  !.message = "Error: " \o msg, !.step = 0, !.progress = 0]

\* _run / _run_zone: the dict.update of the except block
ErrorUpdate(entry, msg) ==
    [entry EXCEPT !.status = "error", !.error = Some(msg),
                  !.traceback = Some("Traceback (most recent call last): " \o msg),
                  !.message = "Error: " \o msg]

\* ------------------------------------------------------------- exceptions
Inputs == {"PALISADES_PERIMETER", "PALISADES_DEM", "PALISADES_DNBR"}
\* _step1_load_data: str() of the FileNotFoundError it raises
InputMissing(p) == "Input file not found: " \o p
\* str() of an exception raised by an external call (toolkit, raster, file I/O)
ExternalFailure == "external call failed"

\* ------------------------------------------------------------- responses
NoResp == [op |-> "none"]

\* ------------------------------------------------------------- handlers
\* A handler between two steps of a call: where it is (pc), and three records
\* of the call kept for the properties: the basins.geojson it tested (seen),
\* whether a run wrote to the shared slot since the call began (overlapped),
\* and the files the call unlinked (removed).
Idle == [pc |-> "idle", call |-> "", seen |-> Absent, overlapped |-> FALSE,
         removed |-> {}]

\* ------------------------------------------------------------- workers
NoThread == [pc |-> "none", k |-> 0, zone |-> FALSE, n |-> 0, orphan |-> FALSE,
             cleared |-> FALSE]

\* No stage computation is being studied
NoCalc == [fn |-> "none"]

TypeOK ==
    /\ DOMAIN jobs \subseteq AllIds
    /\ workdirs \subseteq RunIds
    /\ DOMAIN thr = RunIds

\* The service after construction (an empty job table) over the cache
\* directory an earlier process may have left
InitService ==
    /\ jobs = << >>
    /\ \E n \in 0..MaxBasins :
          /\ basins = IF n = 0 THEN Absent ELSE Complete(PriorId, n)
          /\ perimeter = IF n = 0 THEN Absent ELSE Complete(PriorId, 1)
    /\ zones = [j \in RunIds |-> Absent]
    /\ thr = [j \in RunIds |-> NoThread]
    /\ workdirs = {}
    /\ wrote = [j \in RunIds |-> {}]
    /\ hpc = [h \in Handlers |-> Idle]
    /\ resp = NoResp

Init ==
    /\ InitService
    /\ calc = NoCalc

\* Mutant: an assignment that drops the other entries of the table
insert_replacing(tbl, id, entry) == [x \in {id} |-> entry]

\* dict item assignment _jobs[id] = entry
insert(tbl, id, entry) ==
    [x \in (DOMAIN tbl) \cup {id} |-> IF x = id THEN entry ELSE tbl[x]]

\* ------------------------------------------------------------------------
\* Worker threads: _run (default) and _run_zone
\* ------------------------------------------------------------------------

\* Mutant: an except block that starts the pipeline again
raise_retrying(j, msg) ==
    /\ jobs' = jobs
    /\ thr' = [thr EXCEPT ![j].pc = "created", ![j].k = 0, ![j].n = 0,
                          ![j].orphan = FALSE]

\* Mutant: a try block without its except block
raise_unhandled(j, msg) ==
    /\ jobs' = jobs
    /\ thr' = [thr EXCEPT ![j].pc = "finally", ![j].k = 0, ![j].n = 0,
                          ![j].orphan = FALSE]

\* Mutant: an except block that ends the thread
raise_leaving(j, msg) ==
    /\ jobs' = [jobs EXCEPT ![j] = ErrorUpdate(@, msg)]
    /\ thr' = [thr EXCEPT ![j].pc = "done", ![j].k = 0, ![j].n = 0,
                          ![j].orphan = FALSE]

\* The except block: the entry goes to "error" with str(e) and the traceback,
\* step and progress are not touched; control passes to the finally block
\* (the locals of the try block are dead from here on).
raise(j, msg) ==
    /\ jobs' = [jobs EXCEPT ![j] = ErrorUpdate(@, msg)]
    /\ thr' = [thr EXCEPT ![j].pc = "finally", ![j].k = 0, ![j].n = 0,
                          ![j].orphan = FALSE]

\* tempfile.mkdtemp at the top of the try block
mkdtemp(j) ==
    /\ resp = NoResp
    /\ thr[j].pc = "start"
    /\ \/ /\ workdirs' = workdirs \cup {j}
          /\ thr' = [thr EXCEPT ![j].pc = "created"]
          /\ UNCHANGED jobs
       \/ /\ raise(j, ExternalFailure)
          /\ UNCHANGED workdirs
    /\ UNCHANGED <<basins, perimeter, zones, wrote, hpc, resp, calc>>

\* _step1_load_data is entered: its _update call
step1_load_data(j) ==
    /\ resp = NoResp
    /\ thr[j].pc = "created"
    /\ jobs' = [jobs EXCEPT ![j] = StageUpdate(@, 1)]
    /\ thr' = [thr EXCEPT ![j].pc = "working", ![j].k = 1]
    /\ UNCHANGED <<basins, perimeter, zones, workdirs, wrote, hpc, resp, calc>>

\* The next stage is entered after stage k has returned: its _update call.
\* Stage 10 begins with "export".
next_stage(j, k, n) ==
    /\ jobs' = [jobs EXCEPT ![j] = StageUpdate(@, k + 1)]
    /\ thr' = [thr EXCEPT ![j].k = k + 1, ![j].n = n,
                          ![j].pc = IF k + 1 = 10 THEN "export" ELSE "working"]

\* for p in [PALISADES_PERIMETER, PALISADES_DEM, PALISADES_DNBR]
InputOrder == <<"PALISADES_PERIMETER", "PALISADES_DEM", "PALISADES_DNBR">>

\* Mutant: a stage 1 that tests the perimeter only
TestedPerimeterOnly == <<"PALISADES_PERIMETER">>

\* The inputs stage 1 tests, in its order
Tested == InputOrder

\* The first tested input that is not among the files present, if any
FirstMissing(present) ==
    LET missing == {i \in DOMAIN Tested : Tested[i] \notin present}
    IN  IF missing = {} THEN None
        ELSE Some(Tested[CHOOSE i \in missing : \A o \in missing : i <= o])

\* The input files are those of calc.present where a specification fixes
\* them (SpecInputs), and any otherwise.  if not p.exists(): raise
NotFound(p) == calc.fn = "inputs" => FirstMissing(calc.present) = Some(p)
AllFound == calc.fn = "inputs" => FirstMissing(calc.present) = None

\* The body of stage k (1..9) ends: it returns, and the next stage is entered,
\* or it raises.  Stage 1 raises only for a missing input; stages 2..9 raise
\* what their external calls raise.  Stage 7 returns the basins (at least the
\* perimeter itself, by its fallback).
stage_ends(j) ==
    /\ resp = NoResp
    /\ thr[j].pc = "working"
    /\ LET k == thr[j].k IN
       \/ /\ k = 1
          /\ \E p \in Inputs : NotFound(p) /\ raise(j, InputMissing(p))
       \/ /\ k > 1
          /\ raise(j, ExternalFailure)
       \/ /\ k # 7
          /\ k = 1 => AllFound
          /\ next_stage(j, k, thr[j].n)
       \/ /\ k = 7
          /\ \E n \in 1..MaxBasins : next_stage(j, k, n)
    /\ UNCHANGED <<basins, perimeter, zones, workdirs, wrote, hpc, resp, calc>>

\* History: a write to the shared slot is noted in the calls in flight
noted == [h \in Handlers |-> [hpc[h] EXCEPT !.overlapped = (hpc[h].pc # "idle")]]

\* _step10_export: CACHE_DIR.mkdir and open(basins.geojson, "w")
open_basins(j) ==
    /\ resp = NoResp
    /\ thr[j].pc = "export" /\ ~thr[j].zone
    /\ \/ /\ basins' = Partial(j)
          /\ wrote' = [wrote EXCEPT ![j] = @ \cup {"basins.open"}]
          /\ thr' = [thr EXCEPT ![j].pc = "opened"]
          /\ hpc' = noted
          /\ UNCHANGED jobs
       \/ /\ raise(j, ExternalFailure)
          /\ UNCHANGED <<basins, wrote, hpc>>
    /\ UNCHANGED <<perimeter, zones, workdirs, resp, calc>>

\* basins.geojson after run j has written its n features through the handle
\* it opened and closed it.  A handle whose name was unlinked leaves the
\* directory as it is.  Otherwise the bytes go in from offset 0: when another
\* run has in the meantime written a longer collection into the same file,
\* its tail stays behind the new text and the file does not parse.
dumped(j, n, orphan, f) ==
    IF orphan THEN f
    ELSE IF f.state = "complete" /\ f.n > n THEN Partial(j)
    ELSE Complete(j, n)

\* _step10_export: json.dump into the open file and close
dump_basins(j) ==
    /\ resp = NoResp
    /\ thr[j].pc = "opened" /\ ~thr[j].zone
    /\ \/ /\ basins' = dumped(j, thr[j].n, thr[j].orphan, basins)
          /\ wrote' = [wrote EXCEPT ![j] = @ \cup {"basins"}]
          /\ thr' = [thr EXCEPT ![j].pc = "dumped", ![j].orphan = FALSE]
          /\ hpc' = noted
          /\ UNCHANGED jobs
       \/ /\ raise(j, ExternalFailure)
          /\ UNCHANGED <<basins, wrote, hpc>>
    /\ UNCHANGED <<perimeter, zones, workdirs, resp, calc>>

\* _step10_export: perim_clean.to_file(perimeter.geojson)
write_perimeter(j) ==
    /\ resp = NoResp
    /\ thr[j].pc = "dumped" /\ ~thr[j].zone
    /\ \/ /\ perimeter' = Complete(j, 1)
          /\ wrote' = [wrote EXCEPT ![j] = @ \cup {"perimeter"}]
          /\ thr' = [thr EXCEPT ![j].pc = "exported"]
          /\ hpc' = noted
          /\ UNCHANGED jobs
       \/ /\ raise(j, ExternalFailure)
          /\ UNCHANGED <<perimeter, wrote, hpc>>
    /\ UNCHANGED <<basins, zones, workdirs, resp, calc>>

\* Mutant: every zone run writes the same slot
ZoneSlotShared(j) == <<"run", 1>>

\* The slot a zone run writes: CACHE_DIR / f"zone_{job_id}.geojson"
ZoneSlot(j) == j

\* Mutant: a zone export that opens the shared basins.geojson
open_zone_shared(j) ==
    /\ resp = NoResp
    /\ thr[j].pc = "export" /\ thr[j].zone
    /\ \/ /\ basins' = Partial(j)
          /\ wrote' = [wrote EXCEPT ![j] = @ \cup {"zone.open"}]
          /\ thr' = [thr EXCEPT ![j].pc = "opened"]
          /\ UNCHANGED <<jobs, zones>>
       \/ /\ raise(j, ExternalFailure)
          /\ UNCHANGED <<basins, zones, wrote>>
    /\ UNCHANGED <<perimeter, workdirs, hpc, resp, calc>>

\* _step10_export_zone: CACHE_DIR.mkdir and open(zone_<job_id>.geojson, "w")
open_zone(j) ==
    /\ resp = NoResp
    /\ thr[j].pc = "export" /\ thr[j].zone
    /\ \/ /\ zones' = [zones EXCEPT ![ZoneSlot(j)] = Partial(j)]
          /\ wrote' = [wrote EXCEPT ![j] = @ \cup {"zone.open"}]
          /\ thr' = [thr EXCEPT ![j].pc = "opened"]
          /\ UNCHANGED jobs
       \/ /\ raise(j, ExternalFailure)
          /\ UNCHANGED <<zones, wrote>>
    /\ UNCHANGED <<basins, perimeter, workdirs, hpc, resp, calc>>

\* _step10_export_zone: json.dump into the open file and close
dump_zone(j) ==
    /\ resp = NoResp
    /\ thr[j].pc = "opened" /\ thr[j].zone
    /\ \/ /\ zones' = [zones EXCEPT ![ZoneSlot(j)] = Complete(j, thr[j].n)]
          /\ wrote' = [wrote EXCEPT ![j] = @ \cup {"zone"}]
          /\ thr' = [thr EXCEPT ![j].pc = "exported"]
          /\ UNCHANGED jobs
       \/ /\ raise(j, ExternalFailure)
          /\ UNCHANGED <<zones, wrote>>
    /\ UNCHANGED <<basins, perimeter, workdirs, hpc, resp, calc>>

\* The dict.update that ends the try block
completed(j) ==
    /\ resp = NoResp
    /\ thr[j].pc = "exported"
    /\ jobs' = [jobs EXCEPT ![j] = CompletedUpdate(@, thr[j].n)]
    /\ thr' = [thr EXCEPT ![j].pc = "finally", ![j].k = 0, ![j].n = 0,
                          ![j].orphan = FALSE]
    /\ UNCHANGED <<basins, perimeter, zones, workdirs, wrote, hpc, resp, calc>>

\* Mutant: a finally block that also reports the cleanup in the job entry
rmtree_reporting(j) ==
    /\ resp = NoResp
    /\ thr[j].pc = "finally"
    /\ workdirs' = workdirs \ {j}
    /\ thr' = [thr EXCEPT ![j].pc = "done"]
    /\ jobs' = [jobs EXCEPT ![j].message = "Workspace removed"]
    /\ UNCHANGED <<basins, perimeter, zones, wrote, hpc, resp, calc>>

\* The finally block: shutil.rmtree(work_dir) if a directory was made
rmtree(j) ==
    /\ resp = NoResp
    /\ thr[j].pc = "finally"
    /\ workdirs' = workdirs \ {j}
    /\ thr' = [thr EXCEPT ![j].pc = "done"]
    /\ UNCHANGED <<jobs, basins, perimeter, zones, wrote, hpc, resp, calc>>

run(j) ==
    \/ mkdtemp(j)
    \/ step1_load_data(j)
    \/ stage_ends(j)
    \/ open_basins(j)
    \/ dump_basins(j)
    \/ write_perimeter(j)
    \/ open_zone(j)
    \/ dump_zone(j)
    \/ completed(j)
    \/ rmtree(j)


\* ------------------------------------------------------------------------
\* Request handlers: the public methods of PalisadesService
\* ------------------------------------------------------------------------

\* Ids already in the job table, per namespace
IssuedRuns == {j \in RunIds : j \in DOMAIN jobs}
IssuedCached == {c \in CachedIds : c \in DOMAIN jobs}

\* str(uuid.uuid4())[:8]: a token not issued before
NewRunId ==
    CHOOSE j \in RunIds \ IssuedRuns : \A o \in RunIds \ IssuedRuns : j[2] <= o[2]

\* "cached_" + str(uuid.uuid4())[:6]: a token not issued before
NewCachedId ==
    CHOOSE c \in CachedIds \ IssuedCached :
        \A o \in CachedIds \ IssuedCached : c[2] <= o[2]

\* Handlers that will still launch a run / synthesize a cached job
Launching == {h \in Handlers : hpc[h].pc # "idle" /\ hpc[h].call = "start_analysis"
                                /\ hpc[h].pc # "sa_count"}
Counting == {h \in Handlers : hpc[h].pc = "sa_count"}
\* The model's bounds on the jobs of one behaviour
MayLaunch == Cardinality(IssuedRuns) + Cardinality(Launching) < MaxRuns
MaySynthesize == Cardinality(IssuedCached) + Cardinality(Counting) < MaxCached

\* Thread(target=...).start(): the worker of job id, not yet run
started(threads, id, zone) ==
    [threads EXCEPT ![id] = [pc |-> "start", k |-> 0, zone |-> zone, n |-> 0,
                             orphan |-> FALSE, cleared |-> FALSE]]

\* The tail of start_analysis and of start_zone_analysis: the entry is put in
\* the table, the worker thread is started, the id is returned.
launch(h, op, force, entry) ==
    LET id == NewRunId IN
    /\ jobs' = insert(jobs, id, entry)
    /\ thr' = started(thr, id, entry.zone)
    /\ hpc' = [hpc EXCEPT ![h] = Idle]
    /\ resp' = [op |-> op, job_id |-> id, cached |-> FALSE, force |-> force,
                raised |-> ""]

\* Mutant: an unlink that leaves the file in place
unlink_keeping(f) == f

\* Mutant: a clear that empties the file and leaves its name
unlink_truncating(f) == [state |-> "partial", job |-> NoId, n |-> 0]

\* p.unlink(): the name is gone
unlink(f) == Absent

\* A worker that holds basins.geojson open for writing when the name is
\* unlinked goes on writing to a file that no longer has a name.
orphaned(threads) ==
    [j \in RunIds |->
        IF threads[j].pc = "opened" /\ ~threads[j].zone
        THEN [threads[j] EXCEPT !.orphan = TRUE]
        ELSE threads[j]]

\* History: a cache clear that begins is noted in the runs that have entered
\* stage 10 (cleared: a clear has begun since the run started its export)
clear_begins(threads) ==
    [j \in RunIds |->
        IF j \in DOMAIN jobs /\ jobs[j].step = 10
        THEN [threads[j] EXCEPT !.cleared = TRUE]
        ELSE threads[j]]

\* clear_cache, first file: the p.exists() test of basins.geojson
test_basins(h, call) ==
    hpc' = [hpc EXCEPT ![h] =
               [Idle EXCEPT !.call = call,
                            !.pc = IF exists(basins) THEN "unlink_basins"
                                                     ELSE "test_perimeter"]]

\* start_analysis(force): the test of line 113 and what follows it at once.
\*   not force, basins.geojson exists: go on to count the cached basins;
\*   force: clear_cache begins;
\*   otherwise: the run is launched.
start_analysis(h, force) ==
    /\ resp = NoResp
    /\ hpc[h].pc = "idle"
    /\ \/ /\ ~force /\ exists(basins)
          /\ MaySynthesize
          /\ hpc' = [hpc EXCEPT ![h] =
                        [Idle EXCEPT !.call = "start_analysis",
                                     !.pc = "sa_count", !.seen = basins]]
          /\ UNCHANGED <<jobs, thr, resp>>
       \/ /\ force
          /\ MayLaunch
          /\ test_basins(h, "start_analysis")
          /\ thr' = clear_begins(thr)
          /\ UNCHANGED <<jobs, resp>>
       \/ /\ ~force /\ ~exists(basins)
          /\ MayLaunch
          /\ launch(h, "start_analysis", FALSE, NewRunEntry)
    /\ UNCHANGED <<basins, perimeter, zones, workdirs, wrote, calc>>

\* _count_cached_basins: the features of basins.geojson as it is now; 0 when
\* it cannot be opened or parsed
count_cached_basins(f) == IF f.state = "complete" THEN f.n ELSE 0

\* start_analysis, cache short-circuit: the synthetic entry and the return
start_analysis_cached(h) ==
    /\ resp = NoResp
    /\ hpc[h].pc = "sa_count"
    /\ LET id == NewCachedId IN
       /\ jobs' = insert(jobs, id, CachedEntry(count_cached_basins(basins)))
       /\ resp' = [op |-> "start_analysis", job_id |-> id, cached |-> TRUE,
                   force |-> FALSE, raised |-> ""]
    /\ hpc' = [hpc EXCEPT ![h] = Idle]
    /\ UNCHANGED <<basins, perimeter, zones, thr, workdirs, wrote, calc>>

\* clear_cache(): called directly
clear_cache(h) ==
    /\ resp = NoResp
    /\ hpc[h].pc = "idle"
    /\ test_basins(h, "clear_cache")
    /\ thr' = clear_begins(thr)
    /\ UNCHANGED <<jobs, basins, perimeter, zones, workdirs, wrote, resp, calc>>

\* p.unlink() raises: the exception leaves clear_cache, and start_analysis
\* when it is the caller; the call ends with it
failed(h, e) ==
    /\ hpc' = [hpc EXCEPT ![h] = Idle]
    /\ resp' = IF hpc[h].call = "clear_cache"
               THEN [op |-> "clear_cache", raised |-> e,
                     overlapped |-> hpc[h].overlapped, removed |-> hpc[h].removed]
               ELSE [op |-> "start_analysis", job_id |-> NoId, cached |-> FALSE,
                     force |-> TRUE, raised |-> e]

\* clear_cache, first file: p.unlink() of basins.geojson
unlink_basins(h) ==
    /\ resp = NoResp
    /\ hpc[h].pc = "unlink_basins"
    /\ \/ /\ exists(basins)
          /\ basins' = unlink(basins)
          /\ thr' = orphaned(thr)
          /\ hpc' = [hpc EXCEPT ![h].pc = "test_perimeter",
                                ![h].removed = @ \cup {"basins.geojson"}]
          /\ UNCHANGED resp
       \/ /\ ~exists(basins)
          /\ failed(h, "FileNotFoundError")
          /\ UNCHANGED <<basins, thr>>
    /\ UNCHANGED <<jobs, perimeter, zones, workdirs, wrote, calc>>

\* clear_cache has gone through both files: it returns None; start_analysis
\* goes on to launch the run
cleared(h, removed) ==
    IF hpc[h].call = "clear_cache"
    THEN /\ hpc' = [hpc EXCEPT ![h] = Idle]
         /\ resp' = [op |-> "clear_cache", raised |-> "",
                     overlapped |-> hpc[h].overlapped, removed |-> removed]
    ELSE /\ hpc' = [hpc EXCEPT ![h].pc = "sa_launch", ![h].removed = removed]
         /\ UNCHANGED resp

\* clear_cache, second file: the p.exists() test of perimeter.geojson
test_perimeter(h) ==
    /\ resp = NoResp
    /\ hpc[h].pc = "test_perimeter"
    /\ IF exists(perimeter)
       THEN /\ hpc' = [hpc EXCEPT ![h].pc = "unlink_perimeter"]
            /\ UNCHANGED resp
       ELSE cleared(h, hpc[h].removed)
    /\ UNCHANGED <<jobs, basins, perimeter, zones, thr, workdirs, wrote, calc>>

\* clear_cache, second file: p.unlink() of perimeter.geojson
unlink_perimeter(h) ==
    /\ resp = NoResp
    /\ hpc[h].pc = "unlink_perimeter"
    /\ \/ /\ exists(perimeter)
          /\ perimeter' = unlink(perimeter)
          /\ cleared(h, hpc[h].removed \cup {"perimeter.geojson"})
       \/ /\ ~exists(perimeter)
          /\ failed(h, "FileNotFoundError")
          /\ UNCHANGED perimeter
    /\ UNCHANGED <<jobs, basins, zones, thr, workdirs, wrote, calc>>

\* start_analysis(force=True): after clear_cache, the run is launched
start_analysis_launch(h) ==
    /\ resp = NoResp
    /\ hpc[h].pc = "sa_launch"
    /\ launch(h, "start_analysis", TRUE, NewRunEntry)
    /\ UNCHANGED <<basins, perimeter, zones, workdirs, wrote, calc>>

\* start_zone_analysis(polygon)
start_zone_analysis(h) ==
    /\ resp = NoResp
    /\ hpc[h].pc = "idle"
    /\ MayLaunch
    /\ launch(h, "start_zone_analysis", FALSE, NewZoneEntry)
    /\ UNCHANGED <<basins, perimeter, zones, workdirs, wrote, calc>>

\* get_status(job_id): the value returned
StatusOf(tbl, id) ==
    IF id \notin DOMAIN tbl
    THEN [status |-> "not_found", error |-> Some("Job not found")]
    ELSE tbl[id]

\* Mutant: a lookup that leaves an entry behind for the id it missed
TableAfterStatusInserting(tbl, id) ==
    IF id \in DOMAIN tbl THEN tbl
    ELSE insert(tbl, id, [NewRunEntry EXCEPT !.status = "not_found"])

\* get_status(job_id): the job table after the call
TableAfterStatus(tbl, id) == tbl

get_status(h, id) ==
    /\ resp = NoResp
    /\ hpc[h].pc = "idle"
    /\ resp' = [op |-> "get_status", job_id |-> id, raised |-> "",
                value |-> StatusOf(jobs, id)]
    /\ jobs' = TableAfterStatus(jobs, id)
    /\ UNCHANGED <<basins, perimeter, zones, thr, workdirs, wrote, hpc, calc>>

\* The exists() test, open and json.load of a cache file: the outcome.  A file
\* that gets unlinked between the test and the open raises the same
\* FileNotFoundError, so the outcome is that of one look at the file.
ReadCollection(f) ==
    CASE f.state = "absent" -> [raised |-> "FileNotFoundError", value |-> Absent]
      [] f.state = "partial" -> [raised |-> "JSONDecodeError", value |-> Absent]
      [] f.state = "complete" -> [raised |-> "", value |-> f]

\* get_results()
get_results(h) ==
    /\ resp = NoResp
    /\ hpc[h].pc = "idle"
    /\ resp' = [op |-> "get_results", read |-> ReadCollection(basins)]
    /\ UNCHANGED <<jobs, basins, perimeter, zones, thr, workdirs, wrote, hpc, calc>>

\* CACHE_DIR / f"zone_{job_id}.geojson"
ZoneFile(id) == IF id \in RunIds THEN zones[id] ELSE Absent

\* get_zone_results(job_id)
get_zone_results(h, id) ==
    /\ resp = NoResp
    /\ hpc[h].pc = "idle"
    /\ resp' = [op |-> "get_zone_results", job_id |-> id,
                read |-> ReadCollection(ZoneFile(id))]
    /\ UNCHANGED <<jobs, basins, perimeter, zones, thr, workdirs, wrote, hpc, calc>>

\* The response leaves the service
Deliver ==
    /\ resp # NoResp
    /\ resp' = NoResp
    /\ UNCHANGED <<jobs, basins, perimeter, zones, thr, workdirs, wrote, hpc, calc>>

\* The calls that change the job table or the cache
handle(h) ==
    \/ \E force \in BOOLEAN : start_analysis(h, force)
    \/ start_analysis_cached(h)
    \/ start_analysis_launch(h)
    \/ start_zone_analysis(h)
    \/ clear_cache(h)
    \/ unlink_basins(h)
    \/ test_perimeter(h)
    \/ unlink_perimeter(h)

\* The calls that only read
read(h) ==
    \/ \E id \in AllIds : get_status(h, id)
    \/ get_results(h)
    \/ \E id \in AllIds : get_zone_results(h, id)

Next ==
    \/ \E j \in RunIds : run(j)
    \/ \E h \in 1..MaxCalls : handle(h)
    \/ \E h \in 1..MaxCalls : read(h)
    \/ Deliver

\* The service with its calls made one after the other, the workers running
\* beside them
Spec == Init /\ [][Next]_vars

\* The same service watched without its read-only calls.  get_status,
\* get_results and get_zone_results change nothing but resp, so the job
\* table, cache, workers and handlers reach the same states under both.
NextWrites ==
    \/ \E j \in RunIds : run(j)
    \/ \E h \in 1..MaxCalls : handle(h)
    \/ Deliver

SpecWrites == Init /\ [][NextWrites]_vars

\* The service with calls in flight together on the thread pool
Within == Cardinality(IssuedRuns') <= MaxRunsCalls

NextCalls ==
    \/ \E j \in RunIds : run(j)
    \/ \E h \in Handlers :
          \/ \E force \in BOOLEAN : start_analysis(h, force) /\ Within
          \/ start_analysis_cached(h)
          \/ start_analysis_launch(h) /\ Within
          \/ start_zone_analysis(h) /\ Within
          \/ clear_cache(h)
          \/ unlink_basins(h)
          \/ test_perimeter(h)
          \/ unlink_perimeter(h)
    \/ Deliver

SpecCalls == Init /\ [][NextCalls]_vars

\* Every worker thread that has a step to take eventually takes it (the
\* threads are scheduled by the operating system and every external call
\* returns or raises) and every response is handed over.  A worker's step
\* waits in the model while a response is being handed over, which the
\* thread itself does not: its fairness is therefore strong.
Fairness ==
    /\ \A j \in RunIds : SF_vars(run(j))
    /\ WF_vars(Deliver)

\* The workers and the calls that make jobs.  Clearing the cache changes
\* files only, and no step of a worker waits for a file.
NextLive ==
    \/ \E j \in RunIds : run(j)
    \/ \E h \in 1..MaxCalls :
          \/ start_analysis(h, FALSE)
          \/ start_analysis_cached(h)
          \/ start_zone_analysis(h)
    \/ Deliver

SpecLive == Init /\ [][NextLive]_vars /\ Fairness

\* The workers and the calls that make jobs, over a given set of input
\* files present on disk
InitInputs ==
    /\ InitService
    /\ \E present \in SUBSET Inputs : calc = [fn |-> "inputs", present |-> present]

SpecInputs == InitInputs /\ [][NextLive]_vars

\* ------------------------------------------------------------------------
\* Stage 9: the hazard table and the recorded values
\* ------------------------------------------------------------------------
Unit == 10000       \* one, for areas, ratios, radians, exponents and volumes
PUnit == 100000     \* one, for probabilities

\* The thresholds of the combined hazard classification
P_CLASS3 == 60000        \* 0.60
V_CLASS3 == 10000000     \* 1000 m3
P_CLASS2 == 40000        \* 0.40
V_CLASS2 == 5000000      \* 500 m3
P_CLASS1 == 20000        \* 0.20
V_CLASS1 == 1000000      \* 100 m3

\* Mutant: a table whose classes 1 and 2 are bands of P and of V
HazardClassBanded(P, V) ==
    IF P >= P_CLASS3 /\ V >= V_CLASS3 THEN 3
    ELSE IF P >= P_CLASS2 /\ V >= V_CLASS2 THEN 2
    ELSE IF (P >= P_CLASS1 /\ P < P_CLASS2) \/ (V >= V_CLASS1 /\ V < V_CLASS2) THEN 1
    ELSE 0

\* Mutant: the volume comparisons made strict
HazardClassStrict(P, V) ==
    IF P >= P_CLASS3 /\ V > V_CLASS3 THEN 3
    ELSE IF P >= P_CLASS2 \/ V > V_CLASS2 THEN 2
    ELSE IF P >= P_CLASS1 \/ V > V_CLASS1 THEN 1
    ELSE 0

\* if P >= 0.60 and V >= 1000 ... elif ... else H = 0.0
HazardClass(P, V) ==
    IF P >= P_CLASS3 /\ V >= V_CLASS3 THEN 3
    ELSE IF P >= P_CLASS2 \/ V >= V_CLASS2 THEN 2
    ELSE IF P >= P_CLASS1 \/ V >= V_CLASS1 THEN 1
    ELSE 0

\* round(x, ndigits): the multiple of step nearest to x.  A float is a
\* decimal tie only when the tie is a binary fraction, and then Python
\* rounds to the even multiple.
round(x, step) ==
    LET q == x \div step
        r == x % step
    IN  IF 2 * r > step \/ (2 * r = step /\ q % 2 = 1)
        THEN (q + 1) * step
        ELSE q * step

\* props["P_j"] = round(P, 4); props["V_j"] = round(V, 2); props["H_j"] = H
Recorded(P, V, H) ==
    [P_j |-> round(P, PUnit \div 10000), V_j |-> round(V, Unit \div 100), H_j |-> H]

\* Values around each threshold of the table and away from them.  Stage 9
\* itself yields P below 0.11 (X <= -2.1 for ratios within 0..1); the table
\* is applied here to every P it is written for.
PGrid ==
    {5919, 10840, 95000}
        \cup UNION {{t - 6, t - 4, t, t + 4} : t \in {P_CLASS1, P_CLASS2, P_CLASS3}}
VGrid ==
    {656, 32600, 20000000}
        \cup UNION {{t - 60, t - 40, t, t + 40} : t \in {V_CLASS1, V_CLASS2, V_CLASS3}}

InitHazard ==
    /\ InitService
    /\ \E P \in PGrid, V \in VGrid :
          calc = [fn |-> "hazard", pc |-> "computed", P |-> P, V |-> V,
                  H |-> None, props |-> None]

\* Lines 559-567 for one rainfall index
classify ==
    /\ calc.fn = "hazard" /\ calc.pc = "computed"
    /\ calc' = [calc EXCEPT !.pc = "classified",
                            !.H = Some(HazardClass(calc.P, calc.V))]
    /\ UNCHANGED service

\* Lines 569-571 for one rainfall index
record ==
    /\ calc.fn = "hazard" /\ calc.pc = "classified"
    /\ calc' = [calc EXCEPT !.pc = "recorded",
                            !.props = Some(Recorded(calc.P, calc.V, calc.H[1]))]
    /\ UNCHANGED service

NextHazard ==
    \/ classify
    \/ record

SpecHazard == InitHazard /\ [][NextHazard]_vars

\* ------------------------------------------------------------------------
\* Stage 7: the area filter and the perimeter fallback
\* ------------------------------------------------------------------------
MaxPolygons == 2        \* polygons left of the vectorized basins by the clip
MaxPerimeterRows == 2   \* features of the perimeter

\* The area window, in units of 1/10000 km2
AREA_MIN == 100         \* 0.01 km2
AREA_MAX == 80000       \* 8.0 km2

SeqsUpTo(S, n) == UNION {[1..k -> S] : k \in 0..n}

\* Areas of clipped polygons: on, just below and just above each end of the
\* window, and within it
AreaGrid == {0, AREA_MIN - 1, AREA_MIN, AREA_MIN + 1, 5000,
             AREA_MAX - 1, AREA_MAX, AREA_MAX + 1}
\* Areas of perimeter features: below, within and above the window
PerimeterGrid == {50, 5000, 950000}

\* Mutant: a window that is open at both ends
InWindowOpen(area_km2) == area_km2 > AREA_MIN /\ area_km2 < AREA_MAX

\* (basins_gdf["Area_km2"] >= 0.01) & (basins_gdf["Area_km2"] <= 8.0)
InWindow(area_km2) == area_km2 >= AREA_MIN /\ area_km2 <= AREA_MAX

\* The perimeter is the frame read from the shapefile (default run) or the
\* one-row frame of the user's polygon (zone run); an empty frame does not
\* pass stage 2.  vec is what gpd.read_file(basins_vec) gives after the
\* repair and the clip, or None when it raises.
InitDelineate ==
    /\ InitService
    /\ \E perim \in SeqsUpTo(PerimeterGrid, MaxPerimeterRows) \ {<< >>},
          vec \in {None} \cup {Some(s) : s \in SeqsUpTo(AreaGrid, MaxPolygons)} :
          calc = [fn |-> "delineate", pc |-> "vectorized", perim |-> perim,
                  vec |-> vec, clipped |-> << >>, basins_gdf |-> << >>,
                  returned |-> None]

\* Lines 435-454: the vector basins, or the perimeter when they do not load,
\* repaired and clipped to the buffered perimeter
read_file ==
    /\ calc.fn = "delineate" /\ calc.pc = "vectorized"
    /\ LET loaded == IF calc.vec = None THEN calc.perim ELSE calc.vec[1]
       IN  calc' = [calc EXCEPT !.pc = "clipped", !.clipped = loaded,
                                !.basins_gdf = loaded]
    /\ UNCHANGED service

\* Lines 456-460
filter_by_area ==
    /\ calc.fn = "delineate" /\ calc.pc = "clipped"
    /\ calc' = [calc EXCEPT !.pc = "filtered",
                            !.basins_gdf = SelectSeq(calc.basins_gdf, InWindow)]
    /\ UNCHANGED service

\* Lines 462-466: perim_utm.copy() with its Area_km2 column
fallback ==
    /\ calc.fn = "delineate" /\ calc.pc = "filtered"
    /\ Len(calc.basins_gdf) = 0
    /\ calc' = [calc EXCEPT !.pc = "returned", !.returned = Some(calc.perim)]
    /\ UNCHANGED service

\* Line 468
return_basins ==
    /\ calc.fn = "delineate" /\ calc.pc = "filtered"
    /\ Len(calc.basins_gdf) # 0
    /\ calc' = [calc EXCEPT !.pc = "returned", !.returned = Some(calc.basins_gdf)]
    /\ UNCHANGED service

NextDelineate ==
    \/ read_file
    \/ filter_by_area
    \/ fallback
    \/ return_basins

SpecDelineate == InitDelineate /\ [][NextDelineate]_vars

\* ------------------------------------------------------------------------
\* Stage 9: the Staley probability and the Gartner volume
\* ------------------------------------------------------------------------
\* Rainfall intensities (mm/hr)
I15_VALUES == <<16, 20, 24, 40>>

\* Staley (2017) M1 coefficients, in units of 1/10000
STALEY_B0 == -36300
STALEY_B1 == 4100
STALEY_B2 == 6700
STALEY_B3 == 700

\* Gartner (2014) volume coefficients, in units of 1/10000
GARTNER_A0 == -18700
GARTNER_A1 == 5600
GARTNER_A2 == 9700
GARTNER_A3 == 6100

AREA_FLOOR == 100      \* max(area_km2, 0.01)
I15_FLOOR == 1         \* max(I15, 1)

PI == 31416            \* pi
LN10 == 23026          \* ln 10
LOG10_2 == 3010        \* log10 2

Max(a, b) == IF a >= b THEN a ELSE b

\* The product of two fixed-point numbers
mul(a, b) == (a * b) \div Unit

\* np.sin on 0..pi: the Taylor series, reflected about pi/2
RECURSIVE sin_series(_, _, _, _)
sin_series(t, x2, k, s) ==
    IF t <= 0 \/ k >= 12 THEN s
    ELSE sin_series(mul(t, x2) \div ((2 * k + 2) * (2 * k + 3)), x2, k + 1,
                    IF k % 2 = 0 THEN s + t ELSE s - t)

sin(x) ==
    LET y == IF x > PI \div 2 THEN PI - x ELSE x
    IN  sin_series(y, mul(y, y), 0, 0)

\* The largest r in lo..hi with r * r <= n
RECURSIVE isqrt(_, _, _)
isqrt(n, lo, hi) ==
    IF lo = hi THEN lo
    ELSE LET mid == (lo + hi + 1) \div 2
         IN  IF mid * mid <= n THEN isqrt(n, mid, hi) ELSE isqrt(n, lo, mid - 1)

\* np.sqrt, to three decimals
sqrt(x) == isqrt(x * 100, 0, 46340) * 10

\* np.exp on y >= 0: the Taylor series
RECURSIVE exp_series(_, _, _, _)
exp_series(t, y, n, s) ==
    IF t <= 0 \/ n >= 40 THEN s
    ELSE LET m == n + 1
         IN  exp_series(IF t >= m * 50 THEN ((t \div m) * y) \div Unit
                                        ELSE (t * y) \div (Unit * m),
                        y, m, s + t)

exp(y) == exp_series(Unit, y, 0, 0)

\* x = m * 2^k with m in [1, 2)
RECURSIVE normalise(_, _)
normalise(m, k) ==
    IF m >= 2 * Unit THEN normalise(m \div 2, k + 1)
    ELSE IF m < Unit THEN normalise(m * 2, k - 1)
    ELSE <<m, k>>

\* The binary digits of log2 m, by repeated squaring
RECURSIVE log2_frac(_, _, _, _)
log2_frac(m, bit, i, frac) ==
    IF i >= 14 \/ bit = 0 THEN frac
    ELSE LET sq == mul(m, m)
             big == sq >= 2 * Unit
         IN  log2_frac(IF big THEN sq \div 2 ELSE sq, bit \div 2, i + 1,
                       IF big THEN frac + bit ELSE frac)

log2(x) ==
    LET n == normalise(x, 0)
    IN  n[2] * Unit + log2_frac(n[1], Unit \div 2, 0, 0)

\* np.log10 on x > 0
log10(x) == (log2(x) * LOG10_2) \div Unit

\* A float volume: m * 10^k / 10000 with m from 10000 up to 100000
Zero == [m |-> 0, k |-> 0]

\* 10 ** e
pow10(e) ==
    LET k == e \div Unit
        f == e - k * Unit
    IN  [m |-> exp(mul(f, LN10)), k |-> k]

\* v < w
Less(v, w) ==
    IF v.m = 0 \/ w.m = 0 THEN v.m = 0 /\ w.m # 0
    ELSE IF v.k = w.k THEN v.m < w.m
    ELSE IF v.k + 1 = w.k THEN v.m < 10 * w.m
    ELSE IF w.k + 1 = v.k THEN 10 * v.m < w.m
    ELSE v.k < w.k

\* A volume in units of 1/10000 m3
fixed(v) == IF v.k >= 0 THEN v.m * 10^(v.k) ELSE v.m \div 10^(-v.k)

\* P = 1 / (1 + exp(-X)), X = B0 + B1 sin(2 slope) + B2 high_sev
\*                            + B3 sqrt(I15 burn_ratio); X is below zero
Probability(slope_r, burn_ratio, high_sev, I15) ==
    LET terrain == mul(STALEY_B1, sin(2 * slope_r))
        fire_term == mul(STALEY_B2, high_sev)
        rainfall == mul(STALEY_B3, sqrt(I15 * burn_ratio))
        X == STALEY_B0 + terrain + fire_term + rainfall
    IN  (PUnit * Unit) \div (Unit + exp(-X))

\* Mutant: the area taken as it is
AreaTermUnfloored(area_km2) == area_km2

\* max(area_km2, 0.01)
AreaTerm(area_km2) == Max(area_km2, AREA_FLOOR)

\* V = 10 ** (A0 + A1 log10(max(I15, 1)) + A2 log10(max(area_km2, 0.01))
\*            + A3 high_sev).  np.log10 gives -inf at zero, and V is then 0.0
Volume(area_km2, high_sev, I15) ==
    LET a == AreaTerm(area_km2)
    IN  IF a <= 0 THEN Zero
        ELSE pow10(GARTNER_A0
                      + mul(GARTNER_A1, log10(Max(I15, I15_FLOOR) * Unit))
                      + mul(GARTNER_A2, log10(a))
                      + mul(GARTNER_A3, high_sev))

\* Mean slopes in radians: flat, the default of a failed basin (0.26), the
\* default of a basin without slope cells (15 degrees), 20, 45 and 80 degrees
SlopeGrid == {0, 2600, 2618, 3491, 7854, 13963}
\* burn ratio and high-severity ratio: the cells above 500 are among the
\* cells above 100.  <<0.85, 0.40>> and <<0.8, 0.35>> are the defaults.
RatioGrid == {<<0, 0>>, <<5000, 2500>>, <<8000, 3500>>, <<8500, 4000>>,
              <<9000, 5000>>, <<10000, 0>>, <<10000, 10000>>}
HighSevGrid == {r[2] : r \in RatioGrid}
\* Area_km2 of a basin: of the window of stage 7, or the area of a perimeter
\* returned as basin, which may be empty, below 0.01 or above 8
BasinAreaGrid == {0, 50, 100, 5000, 80000, 950000}

InitModel ==
    /\ InitService
    /\ \E slope_r \in SlopeGrid, r \in RatioGrid, area_km2 \in BasinAreaGrid :
          calc = [fn |-> "model", slope_r |-> slope_r, burn_ratio |-> r[1],
                  high_sev |-> r[2], area_km2 |-> area_km2, j |-> 0,
                  P |-> << >>, V |-> << >>, props |-> << >>]

\* One pass of the loop over I15_VALUES for one basin (lines 540-571)
run_model ==
    /\ calc.fn = "model" /\ calc.j < Len(I15_VALUES)
    /\ LET I15 == I15_VALUES[calc.j + 1]
           P == Probability(calc.slope_r, calc.burn_ratio, calc.high_sev, I15)
           V == Volume(calc.area_km2, calc.high_sev, I15)
           H == HazardClass(P, fixed(V))
       IN  calc' = [calc EXCEPT !.j = calc.j + 1,
                                !.P = Append(calc.P, P),
                                !.V = Append(calc.V, V),
                                !.props = Append(calc.props, Recorded(P, fixed(V), H))]
    /\ UNCHANGED service

NextModel == run_model

SpecModel == InitModel /\ [][NextModel]_vars

\* ------------------------------------------------------------------------
\* Job ids: str(uuid.uuid4())[:8] as the 32 random bits it is
\* ------------------------------------------------------------------------
MaxTokens == 2      \* values of the first eight hex digits of a uuid4
MaxLaunches == 2    \* start calls that launch a worker

Tokens == {<<"run", t>> : t \in 1..MaxTokens}

\* The job table and the workers of the launches made so far: each worker
\* holds the job_id it was started with; present tells whether that id was
\* in the table when it was drawn, writers which workers wrote the entry.
InitIds ==
    /\ InitService
    /\ calc = [fn |-> "ids", jobs |-> << >>, workers |-> << >>,
               writers |-> [t \in Tokens |-> {}]]

\* start_analysis (lines 128-138) and start_zone_analysis (lines 178-189):
\* the id is drawn, the entry is assigned, the worker is started
start(entry) ==
    /\ calc.fn = "ids" /\ Len(calc.workers) < MaxLaunches
    /\ \E job_id \in Tokens :
          calc' = [calc EXCEPT
                      !.jobs = insert(calc.jobs, job_id, entry),
                      !.workers = Append(calc.workers,
                                         [job_id |-> job_id, k |-> 0, pc |-> "running",
                                          present |-> job_id \in DOMAIN calc.jobs])]
    /\ UNCHANGED service

\* A worker enters its next stage: _update(job_id, k + 1, ...)
worker_update(w) ==
    /\ calc.fn = "ids" /\ w \in DOMAIN calc.workers
    /\ calc.workers[w].pc = "running" /\ calc.workers[w].k < 10
    /\ LET id == calc.workers[w].job_id
           k == calc.workers[w].k
       IN  calc' = [calc EXCEPT !.jobs[id] = StageUpdate(@, k + 1),
                                !.workers[w].k = k + 1,
                                !.writers[id] = @ \cup {w}]
    /\ UNCHANGED service

\* A worker ends: the update after the export, or the except block
worker_ends(w) ==
    /\ calc.fn = "ids" /\ w \in DOMAIN calc.workers
    /\ calc.workers[w].pc = "running"
    /\ LET id == calc.workers[w].job_id
       IN  calc' = [calc EXCEPT
                       !.jobs[id] = IF calc.workers[w].k = 10
                                    THEN CompletedUpdate(@, 1)
                                    ELSE ErrorUpdate(@, ExternalFailure),
                       !.workers[w].pc = "done",
                       !.writers[id] = @ \cup {w}]
    /\ UNCHANGED service

NextIds ==
    \/ start(NewRunEntry)
    \/ start(NewZoneEntry)
    \/ \E w \in 1..MaxLaunches : worker_update(w)
    \/ \E w \in 1..MaxLaunches : worker_ends(w)

SpecIds == InitIds /\ [][NextIds]_vars

\* ------------------------------------------------------------------------
\* Stages 8-10 basin by basin: statistics, features, export, basin_count
\* ------------------------------------------------------------------------
MaxRows == 2            \* basins returned by stage 7

\* Stage 8, except block: the statistics of a basin whose extraction raised
DEFAULT_SLOPE_RAD == 2600       \* 0.26
DEFAULT_BURN_RATIO == 8500      \* 0.85
DEFAULT_HIGH_SEV_RATIO == 4000  \* 0.40
\* Stage 8: np.radians(15.0), the slope of a basin without slope cells
NO_CELLS_SLOPE_RAD == 2618
\* Stage 9: the statistics used for a basin beyond the end of basin_stats
SUBSTITUTE_SLOPE_RAD == 2600    \* 0.26
SUBSTITUTE_BURN_RATIO == 8000   \* 0.8
SUBSTITUTE_HIGH_SEV_RATIO == 3500   \* 0.35

Stats(slope_rad, burn_ratio, high_sev_ratio) ==
    [slope_rad |-> slope_rad, burn_ratio |-> burn_ratio,
     high_sev_ratio |-> high_sev_ratio]

\* What the rasters hold under a basin: rio_mask raises (the basin lies off
\* the raster, say), or it gives the slope cells (mean slope, None when there
\* is no valid cell) and the dNBR cells (the two ratios, None when there is
\* no valid cell)
Cells ==
    {[raises |-> TRUE, slope |-> None, dnbr |-> None]}
        \cup {[raises |-> FALSE, slope |-> s, dnbr |-> d] :
                 s \in {None, Some(3491)}, d \in {None, Some(<<9000, 5000>>)}}

\* A row of basins_gdf: its Area_km2 and what the rasters hold under it
Rows == {[Area_km2 |-> a, cells |-> c] : a \in {5000, 80000}, c \in Cells}

\* The outcome of a statement that raised
Raised == [raised |-> TRUE]

\* Mutant: a loop body without its try/except
basin_stats_uncaught(cells) ==
    IF cells.raises THEN Raised
    ELSE Stats(IF cells.slope = None THEN NO_CELLS_SLOPE_RAD ELSE cells.slope[1],
               IF cells.dnbr = None THEN 0 ELSE cells.dnbr[1][1],
               IF cells.dnbr = None THEN 0 ELSE cells.dnbr[1][2])

\* Lines 496-516: the entry stage 8 appends for one basin.  Without slope
\* cells the slope is that of 15 degrees; without dNBR cells total is
\* max(0, 1) and both ratios are 0.
basin_stats_entry(cells) ==
    IF cells.raises
    THEN Stats(DEFAULT_SLOPE_RAD, DEFAULT_BURN_RATIO, DEFAULT_HIGH_SEV_RATIO)
    ELSE Stats(IF cells.slope = None THEN NO_CELLS_SLOPE_RAD ELSE cells.slope[1],
               IF cells.dnbr = None THEN 0 ELSE cells.dnbr[1][1],
               IF cells.dnbr = None THEN 0 ELSE cells.dnbr[1][2])

\* Mutant: a stage 9 that reads the statistics from the last basin backwards
stats_for_reversed(basin_stats, i) ==
    IF i <= Len(basin_stats) THEN basin_stats[Len(basin_stats) + 1 - i]
    ELSE Stats(SUBSTITUTE_SLOPE_RAD, SUBSTITUTE_BURN_RATIO, SUBSTITUTE_HIGH_SEV_RATIO)

\* Line 528: basin_stats[i] if i < len(basin_stats) else the substitute
\* (i counts from 1 here)
stats_for(basin_stats, i) ==
    IF i <= Len(basin_stats) THEN basin_stats[i]
    ELSE Stats(SUBSTITUTE_SLOPE_RAD, SUBSTITUTE_BURN_RATIO, SUBSTITUTE_HIGH_SEV_RATIO)

\* Mutant: a count of the features of the first rainfall class only
basin_count_of_hazardous(features) ==
    Len(SelectSeq(features, LAMBDA f : f.properties.Area_km2 > 5000))

\* len(features)
basin_count_of(features) == Len(features)

InitBasins ==
    /\ InitService
    /\ \E basins_gdf \in SeqsUpTo(Rows, MaxRows) \ {<< >>} :
          calc = [fn |-> "basins", pc |-> "stage8", basins_gdf |-> basins_gdf,
                  i |-> 0, basin_stats |-> << >>, features |-> << >>,
                  written |-> None, basin_count |-> None, status |-> "running",
                  failed_in |-> 0]

\* Stage 8: one pass of the loop over basins_gdf.iterrows()
compute_stats ==
    /\ calc.fn = "basins" /\ calc.pc = "stage8" /\ calc.i < Len(calc.basins_gdf)
    /\ LET entry == basin_stats_entry(calc.basins_gdf[calc.i + 1].cells)
       IN  IF entry = Raised
           THEN calc' = [calc EXCEPT !.pc = "finally", !.status = "error",
                                     !.failed_in = 8]
           ELSE calc' = [calc EXCEPT !.i = calc.i + 1,
                                     !.basin_stats = Append(calc.basin_stats, entry)]
    /\ UNCHANGED service

\* Stage 8 returns basin_stats; stage 9 begins
stats_returned ==
    /\ calc.fn = "basins" /\ calc.pc = "stage8" /\ calc.i = Len(calc.basins_gdf)
    /\ calc' = [calc EXCEPT !.pc = "stage9", !.i = 0]
    /\ UNCHANGED service

\* Stage 9: one pass of the loop over enumerate(basins_wgs84.iterrows()):
\* the feature of basin i from its row and the statistics chosen for it
model_basin ==
    /\ calc.fn = "basins" /\ calc.pc = "stage9" /\ calc.i < Len(calc.basins_gdf)
    /\ LET i == calc.i + 1
           stats == stats_for(calc.basin_stats, i)
       IN  calc' = [calc EXCEPT
                       !.i = i,
                       !.features = Append(calc.features,
                           [properties |-> [Area_km2 |-> calc.basins_gdf[i].Area_km2,
                                            BurnRatio |-> stats.burn_ratio,
                                            Slope |-> stats.slope_rad],
                            stats |-> stats,
                            substituted |-> i > Len(calc.basin_stats)])]
    /\ UNCHANGED service

\* Stage 9 returns features; stage 10 writes the collection to the slot of
\* the job, or raises
export ==
    /\ calc.fn = "basins" /\ calc.pc = "stage9" /\ calc.i = Len(calc.basins_gdf)
    /\ \/ calc' = [calc EXCEPT !.pc = "exported", !.written = Some(calc.features)]
       \/ calc' = [calc EXCEPT !.pc = "finally", !.status = "error",
                               !.failed_in = 10]
    /\ UNCHANGED service

\* The update after the export
count_basins ==
    /\ calc.fn = "basins" /\ calc.pc = "exported"
    /\ calc' = [calc EXCEPT !.pc = "finally", !.status = "completed",
                            !.basin_count = Some(basin_count_of(calc.features))]
    /\ UNCHANGED service

NextBasins ==
    \/ compute_stats
    \/ stats_returned
    \/ model_basin
    \/ export
    \/ count_basins

SpecBasins == InitBasins /\ [][NextBasins]_vars

\* ------------------------------------------------------------------------
\* The hazard table applied to two pairs, one at or above the other
\* ------------------------------------------------------------------------

InitMonotone ==
    /\ InitService
    /\ \E P \in PGrid, V \in VGrid :
          \E P2 \in {p \in PGrid : P <= p}, V2 \in {v \in VGrid : V <= v} :
              calc = [fn |-> "monotone", P |-> P, V |-> V, P2 |-> P2, V2 |-> V2,
                      H |-> None, H2 |-> None]

\* The table applied to the lower pair
classify_lower ==
    /\ calc.fn = "monotone" /\ calc.H = None
    /\ calc' = [calc EXCEPT !.H = Some(HazardClass(calc.P, calc.V))]
    /\ UNCHANGED service

\* The table applied to the upper pair
classify_upper ==
    /\ calc.fn = "monotone" /\ calc.H2 = None
    /\ calc' = [calc EXCEPT !.H2 = Some(HazardClass(calc.P2, calc.V2))]
    /\ UNCHANGED service

NextMonotone ==
    \/ classify_lower
    \/ classify_upper

SpecMonotone == InitMonotone /\ [][NextMonotone]_vars

\* ------------------------------------------------------------------------
\* Properties
\* ------------------------------------------------------------------------
Terminal == {"completed", "error"}

C4_NoCacheOnError ==
    \A id \in IssuedRuns :
        (~jobs[id].zone /\ jobs[id].status = "error") => wrote[id] = {}

\* C5: start_analysis(force=False) that finds basins.geojson present returns
\* cached=true with the id of an entry that is completed / step 10 / progress
\* 100 at once; neither of its steps starts a worker, makes a workspace or
\* changes the cache; and a non-forced call launches a run only when it found
\* basins.geojson absent.
C5_CacheShortCircuit ==
    /\ [](resp.op = "start_analysis" /\ resp.cached =>
            /\ ~resp.force
            /\ resp.job_id \in DOMAIN jobs
            /\ jobs[resp.job_id].status = "completed"
            /\ jobs[resp.job_id].step = 10
            /\ jobs[resp.job_id].progress = 100)
    /\ [][\A h \in Handlers :
              /\ (hpc[h].pc = "sa_count") # (hpc'[h].pc = "sa_count") =>
                    /\ thr' = thr /\ workdirs' = workdirs
                    /\ basins' = basins /\ perimeter' = perimeter /\ zones' = zones
              /\ (hpc[h].pc = "idle" /\ hpc'[h].pc = "sa_count") => exists(basins)
              /\ (hpc[h].pc = "sa_count" /\ hpc'[h].pc # "sa_count") =>
                    resp'.op = "start_analysis" /\ resp'.cached
              /\ (resp.op = "none" /\ resp'.op = "start_analysis"
                    /\ ~resp'.force /\ ~resp'.cached) => ~exists(basins)]_vars

\* A short-circuited start has just returned its synthetic completed job
C5_Witness ==
    /\ resp.op = "start_analysis" /\ resp.cached
    /\ jobs[resp.job_id].status = "completed"
    /\ exists(basins)

\* C6: start_analysis(force=True) always ends by returning cached=false with
\* the id of a new entry that is running / step 0 / progress 0 and whose
\* worker has not yet run; and when it starts the worker, whatever is in the
\* shared slot was written by a run during the call: the artifacts that
\* existed when the call began have been removed.
C6_ForcedStart ==
    /\ resp.op = "start_analysis" /\ resp.force =>
          /\ resp.raised = ""
          /\ ~resp.cached
          /\ resp.job_id \in RunIds
          /\ resp.job_id \in DOMAIN jobs
          /\ jobs[resp.job_id] = NewRunEntry
          /\ thr[resp.job_id].pc = "start"
    /\ \A h \in Handlers :
          hpc[h].pc = "sa_launch" /\ (exists(basins) \/ exists(perimeter)) =>
              hpc[h].overlapped

C8_StatusMiss ==
    [][(resp.op = "none" /\ resp'.op = "get_status"
          /\ resp'.job_id \notin DOMAIN jobs) =>
              /\ resp'.raised = ""
              /\ resp'.value.status = "not_found"
              /\ jobs' = jobs]_vars

\* A poll for an unknown id has just been answered, with jobs in the table
C8_Witness ==
    /\ resp.op = "get_status" /\ resp.job_id = UnknownId
    /\ resp.value.status = "not_found"
    /\ DOMAIN jobs # {}
    /\ UnknownId \notin DOMAIN jobs

\* C9: get_results raises not-found exactly when basins.geojson is absent and
\* get_zone_results(job_id) exactly when that job's zone file is absent;
\* otherwise each returns the collection in the file.
C9_Retrieval ==
    /\ resp.op = "get_results" =>
          /\ (resp.read.raised = "FileNotFoundError") <=> ~exists(basins)
          /\ exists(basins) => resp.read.raised = "" /\ resp.read.value = basins
    /\ resp.op = "get_zone_results" =>
          /\ (resp.read.raised = "FileNotFoundError")
                <=> ~exists(ZoneFile(resp.job_id))
          /\ exists(ZoneFile(resp.job_id)) =>
                /\ resp.read.raised = ""
                /\ resp.read.value = ZoneFile(resp.job_id)

\* Both files of the shared slot
SharedSlot == {"basins.geojson", "perimeter.geojson"}

\* C10: when clear_cache returns and no run wrote to the shared slot during
\* the call, basins.geojson and perimeter.geojson are both absent; no step of
\* clear_cache changes a zone file or the job table; and a file that is
\* found absent is passed over, so the call on an empty slot removes
\* nothing and returns.
C10_ClearCache ==
    /\ [](resp.op = "clear_cache" /\ resp.raised = "" /\ ~resp.overlapped =>
            ~exists(basins) /\ ~exists(perimeter))
    /\ [][\A h \in Handlers :
              /\ (hpc'[h].pc # hpc[h].pc
                    /\ "clear_cache" \in {hpc[h].call, hpc'[h].call}) =>
                    zones' = zones /\ jobs' = jobs
              /\ (hpc[h].pc = "idle" /\ hpc'[h].call = "clear_cache"
                    /\ ~exists(basins)) =>
                    /\ hpc'[h].pc = "test_perimeter"
                    /\ basins' = basins /\ perimeter' = perimeter
              /\ (hpc[h].call = "clear_cache" /\ hpc[h].pc = "test_perimeter"
                    /\ hpc'[h].pc # hpc[h].pc /\ ~exists(perimeter)) =>
                    /\ resp' = [op |-> "clear_cache", raised |-> "",
                                overlapped |-> hpc[h].overlapped,
                                removed |-> hpc[h].removed]
                    /\ basins' = basins /\ perimeter' = perimeter]_vars

\* clear_cache has just removed both files, beside a zone slot that is filled
C10_Witness ==
    /\ resp.op = "clear_cache" /\ resp.raised = "" /\ ~resp.overlapped
    /\ resp.removed = SharedSlot
    /\ \E j \in RunIds : zones[j].state = "complete"

\* C11: whenever a launched default run is completed and no cache clear
\* (clear_cache or a forced start) has begun since it entered stage 10,
\* basins.geojson is there and get_results returns its collection.
C11_CompletedHasResults ==
    \A j \in IssuedRuns :
        (~jobs[j].zone /\ jobs[j].status = "completed" /\ ~thr[j].cleared) =>
            /\ exists(basins)
            /\ ReadCollection(basins).raised = ""

\* C12: a start call that returns a job id has put the entry of that id in
\* the job table, and the worker it started has not yet taken a step (the
\* call did not wait for it); every worker that exists has its entry; no
\* step ever takes an entry out of the table; so get_status for an id that
\* was returned never answers not_found.
C12_EntryBeforeReturn ==
    /\ [](resp.op \in {"start_analysis", "start_zone_analysis"} /\ resp.raised = "" =>
            /\ resp.job_id \in DOMAIN jobs
            /\ ~resp.cached => /\ thr[resp.job_id].pc = "start"
                               /\ jobs[resp.job_id].status = "running")
    /\ [](\A j \in RunIds : thr[j].pc # "none" => j \in DOMAIN jobs)
    /\ [](resp.op = "get_status" /\ resp.job_id \in DOMAIN jobs =>
            resp.value.status # "not_found")
    /\ [][DOMAIN jobs \subseteq DOMAIN jobs']_vars

\* The entry of a completed run is returned after the cache has been cleared
C12_Witness ==
    /\ resp.op = "get_status" /\ resp.job_id \in RunIds
    /\ resp.value.status = "completed"
    /\ ~jobs[resp.job_id].zone
    /\ ~exists(basins) /\ ~exists(perimeter)

\* C13: the class stage 9 computes from P and V is 3 when P >= 0.60 and
\* V >= 1000; otherwise 2 when P >= 0.40 or V >= 500; otherwise 1 when
\* P >= 0.20 or V >= 100; otherwise 0.  Every comparison is inclusive and
\* the class is one of 0, 1, 2, 3.
C13_HazardTable ==
    calc.fn = "hazard" /\ calc.H # None =>
        LET P == calc.P
            V == calc.V
            H == calc.H[1]
            three == P >= 60000 /\ V >= 10000000
            two == P >= 40000 \/ V >= 5000000
            one == P >= 20000 \/ V >= 1000000
        IN  /\ H \in {0, 1, 2, 3}
            /\ three => H = 3
            /\ ~three /\ two => H = 2
            /\ ~three /\ ~two /\ one => H = 1
            /\ ~three /\ ~two /\ ~one => H = 0

\* A volume of exactly 100 m3 under a probability stage 9 can produce: class 1
C13_Witness ==
    /\ calc.fn = "hazard" /\ calc.H # None
    /\ calc.P = 5919 /\ calc.V = 1000000
    /\ calc.H[1] = 1

\* The largest probability of stage 9: X <= -3.63 + 0.41 + 0.67 + 0.07 sqrt(40)
\* = -2.107 for a slope term, a severity ratio and a burn ratio of at most 1
P_MAX == 10850

\* C14: the hazard table applied to the recorded P_j and V_j (rounded to 4
\* and 2 decimals) gives the recorded H_j.  Stated for the records whose
\* probability is one stage 9 can compute.
C14_RecordedReproducible ==
    calc.fn = "hazard" /\ calc.props # None /\ calc.P <= P_MAX =>
        LET props == calc.props[1]
        IN  HazardClass(props.P_j, props.V_j) = props.H_j

\* The number of elements of s equal to a
Count(s, a) == Cardinality({i \in DOMAIN s : s[i] = a})

\* C15: the area filter of stage 7 keeps a polygon if and only if its area
\* is at least 0.01 km2 and at most 8 km2, both ends included: what is left
\* after the filter is, in order, the polygons within the window.
C15_AreaFilter ==
    calc.fn = "delineate" /\ calc.pc = "filtered" =>
        /\ \A i \in DOMAIN calc.basins_gdf :
              calc.basins_gdf[i] >= 100 /\ calc.basins_gdf[i] <= 80000
        /\ \A a \in AreaGrid \cup PerimeterGrid :
              Count(calc.basins_gdf, a) =
                  IF a >= 100 /\ a <= 80000 THEN Count(calc.clipped, a) ELSE 0
        /\ Len(calc.basins_gdf) <= Len(calc.clipped)

\* Polygons of exactly 0.01 km2 and exactly 8 km2 went through the filter
\* and were kept
C15_Witness ==
    /\ calc.fn = "delineate" /\ calc.pc = "filtered"
    /\ calc.clipped = <<100, 80000>>
    /\ calc.basins_gdf = <<100, 80000>>

\* C16: when no polygon is left by the filter, stage 7 returns the
\* perimeter as exactly one basin
C16_FallbackSingleBasin ==
    calc.fn = "delineate" /\ calc.pc = "returned" /\ Len(calc.basins_gdf) = 0 =>
        /\ calc.returned # None
        /\ Len(calc.returned[1]) = 1

\* C17: for a basin of 0.5 km2 with a slope of 20 degrees, a burn ratio of
\* 0.9 and a high-severity ratio of 0.5, the four recorded probabilities and
\* the four recorded volumes increase strictly along the rainfall schedule
C17_ScenarioIncreasing ==
    (/\ calc.fn = "model" /\ calc.j = 4
     /\ calc.area_km2 = 5000 /\ calc.slope_r = 3491
     /\ calc.burn_ratio = 9000 /\ calc.high_sev = 5000) =>
        \A i \in 1..3 :
            /\ calc.props[i].P_j < calc.props[i + 1].P_j
            /\ calc.props[i].V_j < calc.props[i + 1].V_j

\* C18: with the area and the other inputs fixed, the volume of stage 9 grows
\* with the rainfall intensity (for every pair of intensities of the
\* schedule) and with the high-severity ratio; the area enters as
\* max(area_km2, 0.01), so an area of zero or below 0.01 km2 gives the
\* positive volume of 0.01 km2 and no error.
C18_VolumeMonotone ==
    calc.fn = "model" =>
        /\ \A i, j \in 1..Len(calc.V) : i < j => Less(calc.V[i], calc.V[j])
        /\ \A j \in 1..Len(calc.V) :
              /\ calc.V[j].m > 0
              /\ \A h \in HighSevGrid :
                    h > calc.high_sev =>
                        Less(calc.V[j], Volume(calc.area_km2, h, I15_VALUES[j]))
              /\ calc.area_km2 <= 100 =>
                    calc.V[j] = Volume(100, calc.high_sev, I15_VALUES[j])

\* The four volumes of a basin of area zero have been computed
C18_Witness ==
    /\ calc.fn = "model" /\ calc.j = 4
    /\ calc.area_km2 = 0 /\ calc.high_sev = 4000
    /\ Less(Zero, calc.V[1]) /\ Less(calc.V[1], calc.V[4])

WritesInStage10(j) ==
    /\ j \in RunIds \cap DOMAIN jobs
    /\ jobs[j].step = 10 /\ jobs[j].status = "running"
    /\ thr[j].k = 10 /\ thr'[j].pc # thr[j].pc
    /\ wrote[j] \subseteq wrote'[j]
    /\ Cardinality(wrote'[j]) = Cardinality(wrote[j]) + 1
    /\ \A h \in Handlers : hpc'[h].pc = hpc[h].pc
    /\ resp' = resp

\* C20: a file of the cache is created or given new content only by a step
\* of the export (stage 10) of a run that has passed stages 1-9, each such
\* write once per run, into the shared slot by a default run and into its own
\* slot by a zone run; no step of a start, status or retrieval call and no
\* earlier stage does it.  (Removing a file is the clearing of C10.)
C20_WrittenOnceInStage10 ==
    /\ [][/\ (basins' # basins /\ exists(basins')) =>
                WritesInStage10(basins'.job) /\ ~thr[basins'.job].zone
          /\ (perimeter' # perimeter /\ exists(perimeter')) =>
                WritesInStage10(perimeter'.job) /\ ~thr[perimeter'.job].zone
          /\ \A z \in RunIds :
                (zones'[z] # zones[z] /\ exists(zones'[z])) =>
                    /\ zones'[z].job = z
                    /\ WritesInStage10(z) /\ thr[z].zone
          /\ \A j \in RunIds :
                wrote'[j] # wrote[j] => WritesInStage10(j)]_vars
    /\ [](\A j \in RunIds : wrote[j] # {} => j \in DOMAIN jobs /\ jobs[j].step = 10)

\* A default run has written both files of the shared slot and a status
\* call has just been answered
C20_Witness ==
    /\ \E j \in RunIds : wrote[j] = {"basins.open", "basins", "perimeter"}
    /\ resp.op = "get_status"

\* C21: two start calls that launch a worker get different job ids, the id
\* of a new run is not in the job table when it is drawn, and every entry is
\* written by at most one worker
C21_DistinctIds ==
    calc.fn = "ids" =>
        /\ \A v, w \in DOMAIN calc.workers :
              v # w => calc.workers[v].job_id # calc.workers[w].job_id
        /\ \A w \in DOMAIN calc.workers : ~calc.workers[w].present
        /\ \A t \in Tokens : Cardinality(calc.writers[t]) <= 1

\* C22: when clear_cache and the export of a default run have both finished
\* (the only run there is, now 'completed', and no call in flight), the
\* shared slot holds the complete result of that run, results and perimeter
\* both, or holds neither file
C22_SlotWholeOrCleared ==
    \A j \in RunIds :
        (/\ IssuedRuns = {j} /\ ~jobs[j].zone
         /\ jobs[j].status = "completed" /\ thr[j].pc = "done"
         /\ \A h \in Handlers : hpc[h].pc = "idle") =>
            \/ basins = Complete(j, basins.n) /\ perimeter = Complete(j, 1)
            \/ ~exists(basins) /\ ~exists(perimeter)

C25_BasinFailureDefaults ==
    calc.fn = "basins" =>
        /\ calc.pc = "stage8" => calc.status = "running"
        /\ calc.failed_in # 8
        /\ calc.pc \in {"stage9", "exported"} =>
              Len(calc.basin_stats) = Len(calc.basins_gdf)
        /\ \A i \in DOMAIN calc.basin_stats :
              LET cells == calc.basins_gdf[i].cells
                  entry == calc.basin_stats[i]
              IN  /\ cells.raises =>
                        entry = [slope_rad |-> 2600, burn_ratio |-> 8500,
                                 high_sev_ratio |-> 4000]
                  /\ (~cells.raises /\ cells.slope = None) => entry.slope_rad = 2618
                  /\ (~cells.raises /\ cells.dnbr = None) =>
                        entry.burn_ratio = 0 /\ entry.high_sev_ratio = 0

\* The first basin raised, the second had no valid cell; both have their
\* entry and stage 9 has begun
C25_Witness ==
    /\ calc.fn = "basins" /\ calc.pc = "stage9"
    /\ Len(calc.basins_gdf) = 2
    /\ calc.basins_gdf[1].cells.raises
    /\ ~calc.basins_gdf[2].cells.raises
    /\ calc.basins_gdf[2].cells.slope = None /\ calc.basins_gdf[2].cells.dnbr = None
    /\ Len(calc.basin_stats) = 2

\* C26: the job made by the cache short-circuit has as basin_count the
\* number of features of the complete collection that start_analysis found
\* in basins.geojson, whatever clear_cache and the exports of runs do in
\* between
C26_CachedCount ==
    [][\A h \in Handlers :
          (/\ hpc[h].pc = "sa_count" /\ hpc'[h].pc = "idle"
           /\ hpc[h].seen.state = "complete") =>
              /\ resp'.op = "start_analysis" /\ resp'.cached
              /\ jobs'[resp'.job_id].basin_count = Some(hpc[h].seen.n)]_vars

\* C27: no step of a zone run, whether it goes on or fails, changes
\* basins.geojson or perimeter.geojson of the shared slot, and no step of a
\* default run changes a zone slot; and each stage a zone run enters sets the
\* step and progress a default run would set there, and outside stages 2 and
\* 10 the same message
C27_ZoneFrame ==
    [][\A j \in RunIds :
          (thr[j].pc # "none" /\ thr'[j] # thr[j]) =>
              /\ thr[j].zone => basins' = basins /\ perimeter' = perimeter
              /\ ~thr[j].zone => zones' = zones
              /\ (thr[j].zone /\ thr'[j].k = thr[j].k + 1) =>
                    LET default == StageUpdate([jobs[j] EXCEPT !.zone = FALSE],
                                               thr[j].k + 1)
                    IN  /\ jobs'[j].step = default.step
                        /\ jobs'[j].progress = default.progress
                        /\ jobs'[j].status = default.status
                        /\ thr'[j].k \notin {2, 10} =>
                              jobs'[j].message = default.message]_vars

\* A zone run and a default run have both completed: the shared slot holds
\* the default run's files and the zone slot the zone run's
C27_Witness ==
    \E z, d \in RunIds \cap DOMAIN jobs :
        /\ jobs[z].zone /\ jobs[z].status = "completed"
        /\ ~jobs[d].zone /\ jobs[d].status = "completed"
        /\ zones[z] = Complete(z, jobs[z].basin_count[1])
        /\ basins.job = d /\ perimeter.job = d
        /\ ~exists(zones[d])

\* C28: when the threads are scheduled and every call they make returns or
\* raises, every job that is running is later completed or error, also
\* when the failure is that of mkdtemp
C28_LeavesRunning ==
    \A j \in RunIds :
        (j \in DOMAIN jobs /\ jobs[j].status = "running")
            ~> (j \in DOMAIN jobs /\ jobs[j].status \in Terminal)

\* A job whose workspace could not be made is error, before any stage
C28_Witness ==
    \E j \in RunIds \cap DOMAIN jobs :
        /\ jobs[j].status = "error" /\ jobs[j].step = 0
        /\ thr[j].pc = "done" /\ j \notin workdirs

\* C29: a completed job has as basin_count the number of features it wrote
\* to its slot, which is the number of basins stage 7 returned; the i-th
\* feature written is that of the i-th basin
C29_CountIsWritten ==
    (calc.fn = "basins" /\ calc.status = "completed") =>
        /\ calc.written # None /\ calc.basin_count # None
        /\ calc.basin_count[1] = Len(calc.written[1])
        /\ Len(calc.written[1]) = Len(calc.basins_gdf)
        /\ \A i \in DOMAIN calc.basins_gdf :
              calc.written[1][i].properties.Area_km2 = calc.basins_gdf[i].Area_km2

\* A job has completed over two basins of different area, the smaller first
C29_Witness ==
    /\ calc.fn = "basins" /\ calc.status = "completed"
    /\ Len(calc.basins_gdf) = 2
    /\ calc.basins_gdf[1].Area_km2 < calc.basins_gdf[2].Area_km2
    /\ calc.basin_count = Some(2)

\* C30: stage 8 has one statistics entry for each basin it has passed, the
\* i-th computed from the i-th basin, whether that basin's reads raised or
\* not; stage 9 builds the i-th feature from the i-th entry and never from
\* its substitute values
C30_StatsAligned ==
    calc.fn = "basins" =>
        /\ calc.pc = "stage8" => Len(calc.basin_stats) = calc.i
        /\ calc.pc \in {"stage9", "exported"} =>
              Len(calc.basin_stats) = Len(calc.basins_gdf)
        /\ \A i \in DOMAIN calc.basin_stats :
              calc.basin_stats[i] = basin_stats_entry(calc.basins_gdf[i].cells)
        /\ \A i \in DOMAIN calc.features :
              /\ ~calc.features[i].substituted
              /\ calc.features[i].stats = calc.basin_stats[i]
              /\ calc.features[i].properties.BurnRatio = calc.basin_stats[i].burn_ratio
              /\ calc.features[i].properties.Slope = calc.basin_stats[i].slope_rad

\* Stage 9 has evaluated two basins whose entries differ, the first of them
\* from the failure path of stage 8
C30_Witness ==
    /\ calc.fn = "basins" /\ calc.pc = "stage9"
    /\ Len(calc.features) = 2
    /\ calc.basins_gdf[1].cells.raises /\ ~calc.basins_gdf[2].cells.raises
    /\ calc.features[1].stats # calc.features[2].stats

\* C31: for two pairs with P <= P2 and V <= V2 the class of (P2, V2) is at
\* least the class of (P, V)
C31_ClassMonotone ==
    (calc.fn = "monotone" /\ calc.H # None /\ calc.H2 # None) =>
        /\ calc.P <= calc.P2 /\ calc.V <= calc.V2
        /\ calc.H[1] <= calc.H2[1]

\* A probability above the class 2 threshold with a volume below 100 m3
\* is class 2, and stays class 2 when only the volume rises to 500 m3
C31_Witness ==
    /\ calc.fn = "monotone" /\ calc.H # None /\ calc.H2 # None
    /\ calc.P = P_CLASS2 + 4 /\ calc.P2 = calc.P
    /\ calc.V < V_CLASS1 /\ calc.V2 = V_CLASS2
    /\ calc.H[1] = 2 /\ calc.H2[1] = 2

====
